---- MODULE Spec2Model ----
(***************************************************************************)
(* The MCP server of pkg/mcp (Server, its registries and its serve loop    *)
(* Start) as a state machine.  Go values are modelled as follows:          *)
(*   - a nil pointer / nil interface / nil RawMessage is the empty         *)
(*     sequence << >>, a non-nil one is the one-element sequence <<v>>;    *)
(*   - an error is the sequence of the parts of its message, the nil error *)
(*     is << >> (fmt.Errorf("p: %w", e) is <<"p: ">> \o e);                *)
(*   - a JSON object on the wire is a function from the field names that   *)
(*     are present to their values.                                        *)
(***************************************************************************)
EXTENDS Naturals, Integers, Sequences, FiniteSets, TLC

VARIABLES
    pc,            \* position of the program: setup, then the steps of Start
    tools,         \* Server.tools      map[string]Tool
    resources,     \* Server.resources  map[string]Resource
    prompts,       \* Server.prompts    map[string]Prompt
    capabilities,  \* Server.capabilities
    cancelled,     \* ctx.Done() is closed
    msg,           \* Start: var msg Message of the current iteration
    reply,         \* Start: (response, err) returned by handleMessage
    running,       \* handler invocations that have been entered and not returned
    wire,          \* the JSON object handed to encoder.Encode in this iteration
    wrote,         \* whether the output stream accepted that object
    written,       \* history: ordinal of the request answered by each Encode call
    nread,         \* history: number of envelopes decoded so far
    initialized,   \* history: an initialize request has been answered
    errCodes,      \* history: error codes sent so far, per class of failure
    ret,           \* value returned by the last call on the server (Register*, Start)
    heap,          \* the capability structs the pointers of a ServerCapabilities point to
    cb,            \* CapabilitiesBuilder.capabilities: one pointer per capability
    built,         \* the capability sets Build has returned, each with what it held then
    merge,         \* a call c.Merge(other): its operands, what they held, and its result
    hasAny,        \* a call c.HasAnyCapability(): what c held and what the call returned
    tb,            \* a *ToolBuilder (nil when none has been constructed)
    rb,            \* a *ResourceBuilder
    pb,            \* a *PromptBuilder
    lastBuild,     \* the last Build call on tb, rb or pb: its result, whether the builder
                   \* was called since, and the result of the Build call before it if the
                   \* builder was not called between the two
    arrays,        \* the backing arrays of the []PromptArgument slices, in order of allocation
    validation     \* a call of an argument validator: the function, its inputs, its result

\* the server and its session
serverVars == <<pc, tools, resources, prompts, capabilities, cancelled, msg, reply,
                running, wire, wrote, written, nread, initialized, errCodes, ret>>

\* the builders main constructs the server's configuration with
capVars == <<heap, cb, built, merge, hasAny>>

descVars == <<tb, rb, pb, lastBuild, arrays>>

builderVars == <<heap, cb, built, merge, hasAny, tb, rb, pb, lastBuild, arrays, validation>>

vars == <<pc, tools, resources, prompts, capabilities, cancelled, msg, reply,
          running, wire, wrote, written, nread, initialized, errCodes, ret,
          heap, cb, built, merge, hasAny, tb, rb, pb, lastBuild, arrays, validation>>

----------------------------------------------------------------------------
(* Bounds of the model *)

\* number of envelopes the client sends in one session
MaxMsgs == 2

\* number of times Build is called on the capabilities builder
MaxBuilds == 2

\* number of names a tool builder's required list holds
MaxRequired == 2

\* number of arguments added to a prompt builder
MaxArguments == 4

----------------------------------------------------------------------------
(* Go values *)

NilPtr == << >>
NoErr == << >>
NoReturn == <<"(running)">>
Errorf(prefix, e) == <<prefix>> \o e

\* what ends the process when a nil func is called or a nil pointer dereferenced
PanicValue == <<"panic: runtime error: invalid memory address or nil pointer dereference">>

\* the code every error response carries
InternalError == -32603

\* handlers bound to descriptors; NilHandler is a descriptor built without SetHandler
NilHandler == "nil"
ToolHandlers == {"toolFn"}
ResourceHandlers == {"resourceFn"}
PromptHandlers == {"promptFn"}

\* descriptors the setup code may register, with the fields the server reads
ToolNames == {"echo"}
ResourceURIs == {"file:///a"}
PromptNames == {"echo"}
Tool == [Name : ToolNames, Handler : ToolHandlers \cup {NilHandler}]
Resource == [URI : ResourceURIs, MimeType : {"text/plain"}, Handler : ResourceHandlers]
Prompt == [Name : PromptNames, Handler : PromptHandlers]

----------------------------------------------------------------------------
(* Capabilities *)

Cap(p) == <<[Provider |-> p]>>
ResCap(p, s) == <<[Provider |-> p, Subscribe |-> s]>>

DefaultCapabilities == [Tools |-> Cap(FALSE), Resources |-> ResCap(FALSE, FALSE), Prompts |-> Cap(FALSE), Logging |-> Cap(FALSE), Completion |-> Cap(FALSE)]

AllCapabilities == [Tools |-> Cap(TRUE), Resources |-> ResCap(TRUE, TRUE), Prompts |-> Cap(TRUE), Logging |-> Cap(TRUE), Completion |-> Cap(TRUE)]

\* the zero value of ServerCapabilities: every pointer nil
ZeroCapabilities == [Tools |-> NilPtr, Resources |-> NilPtr, Prompts |-> NilPtr, Logging |-> NilPtr, Completion |-> NilPtr]

EnableTools(c) == [c EXCEPT !.Tools = <<[c.Tools[1] EXCEPT !.Provider = TRUE]>>]

EnableResources(c, withSubscribe) == [c EXCEPT !.Resources = <<[Provider |-> TRUE, Subscribe |-> withSubscribe]>>]

EnablePrompts(c) == [c EXCEPT !.Prompts = <<[c.Prompts[1] EXCEPT !.Provider = TRUE]>>]

EnableLogging(c) == [c EXCEPT !.Logging = <<[c.Logging[1] EXCEPT !.Provider = TRUE]>>]

EnableCompletion(c) == [c EXCEPT !.Completion = <<[c.Completion[1] EXCEPT !.Provider = TRUE]>>]

\* the capabilities main builds: NewCapabilitiesBuilder().EnableTools().EnableResources(false).Build()
MainCapabilities == EnableResources(EnableTools(DefaultCapabilities), FALSE)

\* ServerConfig.Name and ServerConfig.Version as main passes them (the defaults of config.Load)
ServerName == "Figma MCP Server"
ServerVersion == "1.0.0"

\* values of ServerConfig.Capabilities the server is constructed with
ServerConfigs == {MainCapabilities, AllCapabilities, ZeroCapabilities}

----------------------------------------------------------------------------
(* The capabilities builder.  A ServerCapabilities struct holds pointers; the *)
(* structs they point to live in heap, at addresses 1, 2, ...: heap[a] is     *)
(* <<struct>>, or << >> while nothing is allocated at a.                      *)

\* the value a capability set c of pointers denotes in heap h
Deref(h, c) == [f \in DOMAIN c |-> IF c[f] = NilPtr THEN NilPtr ELSE h[c[f][1]]]

\* heap h after the structs c points to have been assigned the fields of v
Store(h, c, v) == [a \in DOMAIN h |-> IF \E f \in DOMAIN c : c[f] = <<a>> THEN v[CHOOSE f \in DOMAIN c : c[f] = <<a>>] ELSE h[a]]

\* NewCapabilitiesBuilder: DefaultCapabilities() allocates the five structs
NewCapabilitiesBuilder == [Tools |-> <<1>>, Resources |-> <<2>>, Prompts |-> <<3>>, Logging |-> <<4>>, Completion |-> <<5>>]

\* the EnableX calls of the builder
EnableOps == {[op |-> x, withSubscribe |-> FALSE] : x \in {"EnableTools", "EnablePrompts", "EnableLogging", "EnableCompletion"}} \cup {[op |-> "EnableResources", withSubscribe |-> b] : b \in BOOLEAN}

\* what the capability structs of the builder hold after the call o, given they held v
ApplyEnable(v, o) ==
    CASE o.op = "EnableTools" -> EnableTools(v)
      [] o.op = "EnableResources" -> EnableResources(v, o.withSubscribe)
      [] o.op = "EnablePrompts" -> EnablePrompts(v)
      [] o.op = "EnableLogging" -> EnableLogging(v)
      [] o.op = "EnableCompletion" -> EnableCompletion(v)

\* no Merge call is being looked at
NoMerge == [c |-> NilPtr, other |-> NilPtr, before |-> NilPtr, result |-> NilPtr]

\* no tool, resource or prompt builder has been constructed
NoDescriptorBuilder == tb = NilPtr /\ rb = NilPtr /\ pb = NilPtr /\ lastBuild = NilPtr /\ arrays = << >> /\ validation = NilPtr

BuilderInit ==
    /\ cb = NewCapabilitiesBuilder
    /\ heap = Store([a \in 1..5 |-> NilPtr], cb, DefaultCapabilities)
    /\ built = << >>
    /\ merge = NoMerge
    /\ hasAny = NilPtr
    /\ NoDescriptorBuilder

\* cb.EnableX(...): assigns through the builder's pointers
BuilderEnable(o) ==
    /\ heap' = Store(heap, cb, ApplyEnable(Deref(heap, cb), o))
    /\ UNCHANGED <<cb, built, merge, hasAny>>
    /\ UNCHANGED descVars
    /\ UNCHANGED validation
    /\ UNCHANGED serverVars

\* cb.Build(): returns a copy of the struct of pointers
BuilderBuild ==
    /\ Len(built) < MaxBuilds
    /\ built' = Append(built, [caps |-> cb, view |-> Deref(heap, cb)])
    /\ UNCHANGED <<heap, cb, merge, hasAny>>
    /\ UNCHANGED descVars
    /\ UNCHANGED validation
    /\ UNCHANGED serverVars

\* variant: the completion capability is not looked at
HasAnyCapability_NoCompletion(v) == (v.Tools # NilPtr /\ v.Tools[1].Provider) \/ (v.Resources # NilPtr /\ v.Resources[1].Provider) \/ (v.Prompts # NilPtr /\ v.Prompts[1].Provider) \/ (v.Logging # NilPtr /\ v.Logging[1].Provider)

\* c.HasAnyCapability(), for what c holds
HasAnyCapability(v) == (v.Tools # NilPtr /\ v.Tools[1].Provider) \/ (v.Resources # NilPtr /\ v.Resources[1].Provider) \/ (v.Prompts # NilPtr /\ v.Prompts[1].Provider) \/ (v.Logging # NilPtr /\ v.Logging[1].Provider) \/ (v.Completion # NilPtr /\ v.Completion[1].Provider)

CapNext ==
    \/ \E o \in EnableOps : BuilderEnable(o)
    \/ BuilderBuild

\* the fields of ServerCapabilities, in the order of the struct
CapabilityFields == <<"Tools", "Resources", "Prompts", "Logging", "Completion">>

FieldIndex(f) == CHOOSE i \in 1..Len(CapabilityFields) : CapabilityFields[i] = f

\* &ToolsCapability{}, &ResourcesCapability{}, ...: a new struct with its zero value
ZeroCap(f) == IF f = "Resources" THEN [Provider |-> FALSE, Subscribe |-> FALSE] ELSE [Provider |-> FALSE]

\* variant: only the provider flag of a resources capability is taken from other
Assigned_ProviderOnly(f, old, o) == IF f = "Resources" THEN [Provider |-> o.Provider, Subscribe |-> old.Subscribe] ELSE [Provider |-> o.Provider]

\* result.X.Provider = other.X.Provider (and Subscribe for resources): the struct
\* old after the assignments from the struct o
Assigned(f, old, o) == IF f = "Resources" THEN [Provider |-> o.Provider, Subscribe |-> o.Subscribe] ELSE [Provider |-> o.Provider]

\* c.Merge(other) in heap h, the new structs taking the addresses fresh: result := c
\* copies c's pointers, so the assignments go through them
Merge(h, c, other, fresh) ==
    LET allocates(f) == other[f] # NilPtr /\ c[f] = NilPtr
        result == [f \in DOMAIN c |-> IF allocates(f) THEN <<fresh[f]>> ELSE c[f]]
        alloc == [a \in DOMAIN h |-> IF \E f \in DOMAIN c : allocates(f) /\ fresh[f] = a THEN <<ZeroCap(CHOOSE f \in DOMAIN c : allocates(f) /\ fresh[f] = a)>> ELSE h[a]]
        targets(a) == {f \in DOMAIN c : other[f] # NilPtr /\ result[f] = <<a>>}
    IN [heap |-> [a \in DOMAIN h |-> IF targets(a) # {} THEN <<Assigned(CHOOSE f \in targets(a) : TRUE, alloc[a][1], alloc[other[CHOOSE f \in targets(a) : TRUE][1]][1])>> ELSE alloc[a]], result |-> result]

\* the addresses the structs of c (base 0), of other (base 5) and the new structs of
\* Merge (base 10) are at
Ptrs(v, base) == [f \in DOMAIN v |-> IF v[f] = NilPtr THEN NilPtr ELSE <<base + FieldIndex(f)>>]

FreshAddrs == [f \in {CapabilityFields[i] : i \in 1..Len(CapabilityFields)} |-> 10 + FieldIndex(f)]

\* the capability sets a caller may hold: each capability absent or present, on or off
CapValues == [Tools : {NilPtr, Cap(FALSE), Cap(TRUE)}, Resources : {NilPtr} \cup {ResCap(p, sub) : p \in BOOLEAN, sub \in BOOLEAN}, Prompts : {NilPtr, Cap(FALSE), Cap(TRUE)}, Logging : {NilPtr, Cap(FALSE), Cap(TRUE)}, Completion : {NilPtr, Cap(FALSE), Cap(TRUE)}]

\* c and other with structs of their own
Separate(vc, vo) == [heap |-> [a \in 1..15 |-> IF a <= 5 THEN vc[CapabilityFields[a]] ELSE IF a <= 10 THEN vo[CapabilityFields[a - 5]] ELSE NilPtr], c |-> Ptrs(vc, 0), other |-> Ptrs(vo, 5)]

\* other is a copy of c: both hold the same pointers
Shared(vc) == [heap |-> [a \in 1..15 |-> IF a <= 5 THEN vc[CapabilityFields[a]] ELSE NilPtr], c |-> Ptrs(vc, 0), other |-> Ptrs(vc, 0)]

MergeCall ==
    /\ merge.c # NilPtr /\ merge.result = NilPtr
    /\ LET m == Merge(heap, merge.c[1], merge.other[1], FreshAddrs) IN
         /\ heap' = m.heap
         /\ merge' = [merge EXCEPT !.result = <<m.result>>]
    /\ UNCHANGED <<cb, built, hasAny>>
    /\ UNCHANGED descVars
    /\ UNCHANGED validation
    /\ UNCHANGED serverVars

----------------------------------------------------------------------------
(* The descriptor builders of tools.go *)

\* the property names a caller passes
PropNames == {"x", "y"}

\* the same names in byte order, the order json.Marshal writes the keys of a map in
KeyOrder == <<"x", "y">>

\* the schema of a property as AddProperty stores it
Property(propType, description) == [type |-> propType, description |-> description]

\* ... as AddArrayProperty stores it
ArrayProperty(itemType, description) == [type |-> "array", description |-> description, items |-> [type |-> itemType]]

\* ... as AddObjectProperty stores it
ObjectProperty(description, properties) == [type |-> "object", description |-> description, properties |-> properties]

\* lastBuild after a Build call of a builder of the given kind has returned result
Built(kind, result) == <<[kind |-> kind, result |-> result, touched |-> FALSE, prev |-> IF lastBuild # NilPtr /\ ~lastBuild[1].touched THEN <<lastBuild[1].result>> ELSE NilPtr]>>

\* lastBuild after a call on the builder other than Build
Touched == IF lastBuild = NilPtr THEN NilPtr ELSE <<[lastBuild[1] EXCEPT !.touched = TRUE]>>

NewToolBuilder(name, description) == [name |-> name, description |-> description, schema |-> [type |-> "object", properties |-> [n \in PropNames |-> NilPtr], required |-> << >>], handler |-> NilHandler]

\* tb.schema["required"] = append(requiredList, name), when required
AppendRequired(requiredList, name, required) == IF required THEN Append(requiredList, name) ELSE requiredList

AddProperty(b, name, propType, description, required) == [b EXCEPT !.schema.properties[name] = <<Property(propType, description)>>, !.schema.required = AppendRequired(@, name, required)]

AddStringProperty(b, name, description, required) == AddProperty(b, name, "string", description, required)

AddNumberProperty(b, name, description, required) == AddProperty(b, name, "number", description, required)

AddBooleanProperty(b, name, description, required) == AddProperty(b, name, "boolean", description, required)

AddArrayProperty(b, name, itemType, description, required) == [b EXCEPT !.schema.properties[name] = <<ArrayProperty(itemType, description)>>, !.schema.required = AppendRequired(@, name, required)]

AddObjectProperty(b, name, description, properties, required) == [b EXCEPT !.schema.properties[name] = <<ObjectProperty(description, properties)>>, !.schema.required = AppendRequired(@, name, required)]

\* json.Marshal(tb.schema): the members of the object in the order of their keys, the
\* properties that are present likewise
MarshalSchema(schema) ==
    LET present == SelectSeq(KeyOrder, LAMBDA n : schema.properties[n] # NilPtr)
    IN <<<<"properties", [i \in 1..Len(present) |-> <<present[i], schema.properties[present[i]][1]>>]>>, <<"required", schema.required>>, <<"type", schema.type>>>>

\* the required list of a marshalled schema
RequiredOf(schemaJSON) == schemaJSON[2][2]

\* (tb *ToolBuilder) Build: the descriptor returned (Marshal does not fail on a schema
\* made of strings, lists and maps)
ToolBuilderBuild(b) == [Name |-> b.name, Description |-> b.description, InputSchema |-> MarshalSchema(b.schema), Handler |-> b.handler]

\* the calls made on a tool builder
ToolOps == {[op |-> m, name |-> n, required |-> r] : m \in {"AddProperty", "AddStringProperty", "AddNumberProperty", "AddBooleanProperty", "AddArrayProperty", "AddObjectProperty"}, n \in PropNames, r \in BOOLEAN} \cup {[op |-> "SetHandler", handler |-> h] : h \in ToolHandlers}

ApplyToolOp(b, o) ==
    CASE o.op = "AddProperty" -> AddProperty(b, o.name, "integer", "d", o.required)
      [] o.op = "AddStringProperty" -> AddStringProperty(b, o.name, "d", o.required)
      [] o.op = "AddNumberProperty" -> AddNumberProperty(b, o.name, "d", o.required)
      [] o.op = "AddBooleanProperty" -> AddBooleanProperty(b, o.name, "d", o.required)
      [] o.op = "AddArrayProperty" -> AddArrayProperty(b, o.name, "string", "d", o.required)
      [] o.op = "AddObjectProperty" -> AddObjectProperty(b, o.name, "d", NilPtr, o.required)
      [] o.op = "SetHandler" -> [b EXCEPT !.handler = o.handler]

ToolBuilderCall(o) ==
    /\ tb # NilPtr
    /\ o.op # "SetHandler" /\ o.required => Len(tb[1].schema.required) < MaxRequired
    /\ tb' = <<ApplyToolOp(tb[1], o)>>
    /\ lastBuild' = Touched
    /\ UNCHANGED <<rb, pb, arrays>>
    /\ UNCHANGED capVars
    /\ UNCHANGED validation
    /\ UNCHANGED serverVars

\* variant: Build hands its required list over and leaves the builder with an empty one
ToolBuild_Drains ==
    /\ tb # NilPtr
    /\ lastBuild' = Built("tool", ToolBuilderBuild(tb[1]))
    /\ tb' = <<[tb[1] EXCEPT !.schema.required = << >>]>>
    /\ UNCHANGED <<rb, pb, arrays>>
    /\ UNCHANGED capVars
    /\ UNCHANGED validation
    /\ UNCHANGED serverVars

\* tb.Build()
ToolBuild ==
    /\ tb # NilPtr
    /\ lastBuild' = Built("tool", ToolBuilderBuild(tb[1]))
    /\ UNCHANGED <<tb, rb, pb, arrays>>
    /\ UNCHANGED capVars
    /\ UNCHANGED validation
    /\ UNCHANGED serverVars

\* variant: a new resource builder has no MIME type
NewResourceBuilder_NoMimeType(uri, name) == [uri |-> uri, name |-> name, description |-> "", mimeType |-> "", handler |-> NilHandler]

NewResourceBuilder(uri, name) == [uri |-> uri, name |-> name, description |-> "", mimeType |-> "text/plain", handler |-> NilHandler]

\* (rb *ResourceBuilder) Build: the descriptor returned
ResourceBuilderBuild(b) == [URI |-> b.uri, Name |-> b.name, Description |-> b.description, MimeType |-> b.mimeType, Handler |-> b.handler]

\* the calls made on a resource builder
ResourceOps == {[op |-> "SetDescription", description |-> "d"], [op |-> "SetMimeType", mimeType |-> "application/json"]} \cup {[op |-> "SetHandler", handler |-> h] : h \in ResourceHandlers}

ApplyResourceOp(b, o) ==
    CASE o.op = "SetDescription" -> [b EXCEPT !.description = o.description]
      [] o.op = "SetMimeType" -> [b EXCEPT !.mimeType = o.mimeType]
      [] o.op = "SetHandler" -> [b EXCEPT !.handler = o.handler]

ResourceBuilderCall(o) ==
    /\ rb # NilPtr
    /\ rb' = <<ApplyResourceOp(rb[1], o)>>
    /\ lastBuild' = Touched
    /\ UNCHANGED <<tb, pb, arrays>>
    /\ UNCHANGED capVars
    /\ UNCHANGED validation
    /\ UNCHANGED serverVars

\* rb.Build()
ResourceBuild ==
    /\ rb # NilPtr
    /\ lastBuild' = Built("resource", ResourceBuilderBuild(rb[1]))
    /\ UNCHANGED <<tb, rb, pb, arrays>>
    /\ UNCHANGED capVars
    /\ UNCHANGED validation
    /\ UNCHANGED serverVars

\* a slice value: the backing array it points into (0 when it has none), its length
\* and its capacity
EmptySlice == [array |-> 0, len |-> 0, cap |-> 0]

\* the elements a slice value holds, given the backing arrays
Elements(arrs, sl) == IF sl.len = 0 THEN << >> ELSE SubSeq(arrs[sl.array], 1, sl.len)

\* the zero value of PromptArgument
ZeroArgument == [Name |-> "", Description |-> "", Required |-> FALSE]

\* the capacity append gives the new backing array of a full slice of PromptArgument
Grow(cap) == IF cap = 0 THEN 1 ELSE 2 * cap

\* append(sl, x): writes x behind the elements of sl when the backing array has room
\* for it, and otherwise into a copy of the elements in a new, larger array
SliceAppend(arrs, sl, x) ==
    IF sl.len < sl.cap
      THEN [arrays |-> [arrs EXCEPT ![sl.array][sl.len + 1] = x], slice |-> [sl EXCEPT !.len = @ + 1]]
      ELSE [arrays |-> Append(arrs, [i \in 1..Grow(sl.cap) |-> IF i <= sl.len THEN arrs[sl.array][i] ELSE IF i = sl.len + 1 THEN x ELSE ZeroArgument]), slice |-> [array |-> Len(arrs) + 1, len |-> sl.len + 1, cap |-> Grow(sl.cap)]]

NewPromptBuilder(name) == [name |-> name, description |-> "", arguments |-> EmptySlice, handler |-> NilHandler]

\* pb.arguments = append(pb.arguments, PromptArgument{...}): the backing arrays and
\* the builder after the call
AddArgument(arrs, b, name, description, required) ==
    LET a == SliceAppend(arrs, b.arguments, [Name |-> name, Description |-> description, Required |-> required])
    IN [arrays |-> a.arrays, builder |-> [b EXCEPT !.arguments = a.slice]]

\* variant: the descriptor's argument slice extends over the whole backing array
PromptBuilderBuild_WholeArray(b) == [Name |-> b.name, Description |-> b.description, Arguments |-> [b.arguments EXCEPT !.len = b.arguments.cap], Handler |-> b.handler]

\* (pb *PromptBuilder) Build: the descriptor returned; Arguments is the builder's slice
\* value, so it points into the same backing array
PromptBuilderBuild(b) == [Name |-> b.name, Description |-> b.description, Arguments |-> b.arguments, Handler |-> b.handler]

\* the argument names a caller passes
ArgNames == {"x"}

\* the calls made on a prompt builder
PromptOps == {[op |-> "SetDescription", description |-> "d"]} \cup {[op |-> "AddArgument", name |-> n, required |-> r] : n \in ArgNames, r \in BOOLEAN} \cup {[op |-> "SetHandler", handler |-> h] : h \in PromptHandlers}

ApplyPromptOp(arrs, b, o) ==
    CASE o.op = "SetDescription" -> [arrays |-> arrs, builder |-> [b EXCEPT !.description = o.description]]
      [] o.op = "AddArgument" -> AddArgument(arrs, b, o.name, "d", o.required)
      [] o.op = "SetHandler" -> [arrays |-> arrs, builder |-> [b EXCEPT !.handler = o.handler]]

PromptBuilderCall(o) ==
    /\ pb # NilPtr
    /\ o.op = "AddArgument" => pb[1].arguments.len < MaxArguments
    /\ pb' = <<ApplyPromptOp(arrays, pb[1], o).builder>>
    /\ arrays' = ApplyPromptOp(arrays, pb[1], o).arrays
    /\ lastBuild' = Touched
    /\ UNCHANGED <<tb, rb>>
    /\ UNCHANGED capVars
    /\ UNCHANGED validation
    /\ UNCHANGED serverVars

\* pb.Build()
PromptBuild ==
    /\ pb # NilPtr
    /\ lastBuild' = Built("prompt", PromptBuilderBuild(pb[1]))
    /\ UNCHANGED <<tb, rb, pb, arrays>>
    /\ UNCHANGED capVars
    /\ UNCHANGED validation
    /\ UNCHANGED serverVars

----------------------------------------------------------------------------
(* The argument validators of tools.go.  A value of type interface{} is the record *)
(* of its dynamic type and its value; float64 values are written as integers.     *)

GoString(v) == [type |-> "string", value |-> v]
GoFloat64(v) == [type |-> "float64", value |-> v]
GoInt(v) == [type |-> "int", value |-> v]
GoBool(v) == [type |-> "bool", value |-> v]

\* the values of an arguments map: strings, numbers as json.Unmarshal and as Go code
\* store them, booleans, the JSON null and an object
ArgValues == {GoString("a"), GoString(""), GoFloat64(3), GoFloat64(0), GoInt(2), GoBool(TRUE), GoBool(FALSE), [type |-> "nil", value |-> "null"], [type |-> "map", value |-> "{}"]}

\* &ValidationError{Field: key, Message: message}
ValidationError(key, message) == <<[Field |-> key, Message |-> message]>>

\* (value, err) of ValidateRequiredString
ValidateRequiredString(args, key) ==
    IF key \notin DOMAIN args THEN <<GoString(""), ValidationError(key, "required field missing")>>
    ELSE IF args[key].type # "string" THEN <<GoString(""), ValidationError(key, "must be a string")>>
    ELSE IF args[key].value = "" THEN <<GoString(""), ValidationError(key, "cannot be empty")>>
    ELSE <<args[key], NoErr>>

\* variant: a value of another type yields the empty string
ValidateOptionalString_Zero(args, key, defaultValue) ==
    IF key \notin DOMAIN args THEN <<defaultValue>>
    ELSE IF args[key].type # "string" THEN <<GoString("")>>
    ELSE <<args[key]>>

\* the value ValidateOptionalString returns
ValidateOptionalString(args, key, defaultValue) ==
    IF key \notin DOMAIN args THEN <<defaultValue>>
    ELSE IF args[key].type # "string" THEN <<defaultValue>>
    ELSE <<args[key]>>

\* (value, err) of ValidateRequiredNumber: an int is converted
ValidateRequiredNumber(args, key) ==
    IF key \notin DOMAIN args THEN <<GoFloat64(0), ValidationError(key, "required field missing")>>
    ELSE IF args[key].type # "float64"
      THEN IF args[key].type = "int" THEN <<GoFloat64(args[key].value), NoErr>>
           ELSE <<GoFloat64(0), ValidationError(key, "must be a number")>>
    ELSE <<args[key], NoErr>>

\* the value ValidateOptionalNumber returns
ValidateOptionalNumber(args, key, defaultValue) ==
    IF key \notin DOMAIN args THEN <<defaultValue>>
    ELSE IF args[key].type # "float64"
      THEN IF args[key].type = "int" THEN <<GoFloat64(args[key].value)>>
           ELSE <<defaultValue>>
    ELSE <<args[key]>>

\* (value, err) of ValidateRequiredBool
ValidateRequiredBool(args, key) ==
    IF key \notin DOMAIN args THEN <<GoBool(FALSE), ValidationError(key, "required field missing")>>
    ELSE IF args[key].type # "bool" THEN <<GoBool(FALSE), ValidationError(key, "must be a boolean")>>
    ELSE <<args[key], NoErr>>

\* the value ValidateOptionalBool returns
ValidateOptionalBool(args, key, defaultValue) ==
    IF key \notin DOMAIN args THEN <<defaultValue>>
    ELSE IF args[key].type # "bool" THEN <<defaultValue>>
    ELSE <<args[key]>>

\* the validators, and the default values passed to the optional ones
Validators == {"ValidateRequiredString", "ValidateOptionalString", "ValidateRequiredNumber", "ValidateOptionalNumber", "ValidateRequiredBool", "ValidateOptionalBool"}

Defaults(fn) ==
    CASE fn = "ValidateOptionalString" -> {GoString("dflt"), GoString("")}
      [] fn = "ValidateOptionalNumber" -> {GoFloat64(7), GoFloat64(0)}
      [] fn = "ValidateOptionalBool" -> {GoBool(TRUE), GoBool(FALSE)}
      [] OTHER -> {NilPtr}

\* what the call v returns
Validate(v) ==
    CASE v.fn = "ValidateRequiredString" -> ValidateRequiredString(v.args, v.key)
      [] v.fn = "ValidateOptionalString" -> ValidateOptionalString(v.args, v.key, v.defaultValue)
      [] v.fn = "ValidateRequiredNumber" -> ValidateRequiredNumber(v.args, v.key)
      [] v.fn = "ValidateOptionalNumber" -> ValidateOptionalNumber(v.args, v.key, v.defaultValue)
      [] v.fn = "ValidateRequiredBool" -> ValidateRequiredBool(v.args, v.key)
      [] v.fn = "ValidateOptionalBool" -> ValidateOptionalBool(v.args, v.key, v.defaultValue)

\* the arguments maps a caller passes: the key "k" absent or bound to a value, next to
\* another key
ArgMaps == {[x \in {"other"} |-> GoString("z")]} \cup {[x \in {"k", "other"} |-> IF x = "k" THEN a ELSE GoString("z")] : a \in ArgValues}

ValidateCall ==
    /\ validation # NilPtr /\ validation[1].result = NilPtr
    /\ validation' = <<[validation[1] EXCEPT !.result = <<Validate(validation[1])>>]>>
    /\ UNCHANGED <<tb, rb, pb, lastBuild, arrays>>
    /\ UNCHANGED capVars
    /\ UNCHANGED serverVars

----------------------------------------------------------------------------
(* Messages *)

\* type Message: ID and Params are json.RawMessage, Result an interface, Error a pointer
Message(id, method, params, result, error) == [JSONRPC |-> "2.0", ID |-> id, Method |-> method, Params |-> params, Result |-> result, Error |-> error]

\* var msg Message: the zero value
NoMsg == [JSONRPC |-> "", ID |-> NilPtr, Method |-> "", Params |-> NilPtr, Result |-> NilPtr, Error |-> NilPtr]

\* the json tags of Message: every field but jsonrpc is omitempty
JSONFields == {"jsonrpc", "id", "method", "params", "result", "error"}

GoField(f) == CASE f = "jsonrpc" -> "JSONRPC" [] f = "id" -> "ID" [] f = "method" -> "Method" [] f = "params" -> "Params" [] f = "result" -> "Result" [] f = "error" -> "Error"

\* variant: the result tag without omitempty, so a nil Result is written as null
IsEmptyValue_ResultKept(m, f) == IF f = "result" THEN FALSE ELSE IF f = "method" THEN m.Method = "" ELSE m[GoField(f)] = NilPtr

\* omitempty drops an empty string, a nil pointer or interface, and an empty RawMessage
IsEmptyValue(m, f) == IF f = "method" THEN m.Method = "" ELSE m[GoField(f)] = NilPtr

\* json.Marshal of a Message
Marshal(m) == [f \in {g \in JSONFields : g = "jsonrpc" \/ ~IsEmptyValue(m, g)} |-> m[GoField(f)]]

\* decoder.Decode into a fresh Message: an absent field keeps its zero value
DecodeMessage(w) == [JSONRPC |-> IF "jsonrpc" \in DOMAIN w THEN w["jsonrpc"] ELSE "", ID |-> IF "id" \in DOMAIN w THEN w["id"] ELSE NilPtr, Method |-> IF "method" \in DOMAIN w THEN w["method"] ELSE "", Params |-> IF "params" \in DOMAIN w THEN w["params"] ELSE NilPtr, Result |-> NilPtr, Error |-> NilPtr]

----------------------------------------------------------------------------
(* What the client may send *)

RoutingTable == {"initialize", "tools/list", "tools/call", "resources/list", "resources/read", "prompts/list", "prompts/get", "completion/complete"}

UnknownMethods == {"foo/bar", "Tools/Call"}

\* raw ids: a number and the JSON null, each kept as its bytes
WireIds == {<<"1">>, <<"null">>}

\* the arguments member of a params object: absent, or the object {"msg": "hi"}
WireArguments == {NilPtr, <<[msg |-> "hi"]>>}

\* raw params: a JSON number (not an object), and objects with a name (and perhaps
\* arguments) or a uri
WireParams == {<<[type |-> "number"]>>} \cup {<<[type |-> "object", name |-> "echo", uri |-> "", arguments |-> a]>> : a \in WireArguments} \cup {<<[type |-> "object", name |-> "missing", uri |-> "", arguments |-> NilPtr]>>} \cup {<<[type |-> "object", name |-> "", uri |-> u, arguments |-> NilPtr]>> : u \in {"file:///a", "file:///missing"}}

Obj(fields, src) == [f \in fields |-> src[f]]

\* envelopes on the input stream: id, method and params are each optional
WireRequests == {Obj(fs \cup {"jsonrpc"}, [jsonrpc |-> "2.0", id |-> i, method |-> m, params |-> p]) : fs \in SUBSET {"id", "method", "params"}, i \in WireIds, m \in RoutingTable \cup UnknownMethods, p \in WireParams}

----------------------------------------------------------------------------
(* handleMessage and the handlers it routes to *)

\* what a handler returns: (response, err)
Ok(m) == [response |-> <<m>>, err |-> NoErr]
Fail(e) == [response |-> NilPtr, err |-> e]
NoReply == [response |-> NilPtr, err |-> NoErr]

\* how far handleMessage gets without the registered handler: it returns, it calls
\* the handler bound to a descriptor, or it panics
Return(r) == [step |-> "return", reply |-> r, handler |-> NilHandler, args |-> NilPtr]
Call(h, args) == [step |-> "call", reply |-> NoReply, handler |-> h, args |-> args]
Panics == [step |-> "panic", reply |-> NoReply, handler |-> NilHandler, args |-> NilPtr]

Response(id, result) == Message(id, "", NilPtr, <<result>>, NilPtr)

\* json.Unmarshal(msg.Params, &params) for ToolCallParams, ResourceReadParams, PromptGetParams
Unmarshal(p) == IF p = NilPtr THEN [err |-> <<"unexpected end of JSON input">>, Name |-> "", URI |-> "", Arguments |-> NilPtr] ELSE IF p[1].type # "object" THEN [err |-> <<"json: cannot unmarshal ", p[1].type>>, Name |-> "", URI |-> "", Arguments |-> NilPtr] ELSE [err |-> NoErr, Name |-> p[1].name, URI |-> p[1].uri, Arguments |-> p[1].arguments]

\* the descriptors of a registry in the order the map iteration `it` visits them
Listed(registry, it) == [i \in 1..Len(it) |-> registry[it[i]]]

\* the orders in which a range over a map may visit its keys
Orders(S) == {s \in [1..Cardinality(S) -> S] : \A i, j \in 1..Cardinality(S) : i # j => s[i] # s[j]}

Iterations == [tools : Orders(DOMAIN tools), resources : Orders(DOMAIN resources), prompts : Orders(DOMAIN prompts)]

\* variant: initialize reports the default capability set instead of the server's
handleInitialize_Default(m) == Ok(Response(m.ID, [type |-> "InitializeResult", ProtocolVersion |-> "2024-11-05", ServerInfo |-> [Name |-> ServerName, Version |-> ServerVersion], Capabilities |-> DefaultCapabilities]))

handleInitialize(m) == Ok(Response(m.ID, [type |-> "InitializeResult", ProtocolVersion |-> "2024-11-05", ServerInfo |-> [Name |-> ServerName, Version |-> ServerVersion], Capabilities |-> capabilities]))

handleToolsList(m, it) == Ok(Response(m.ID, [type |-> "ToolsListResult", Tools |-> Listed(tools, it.tools)]))

handleResourcesList(m, it) == Ok(Response(m.ID, [type |-> "ResourcesListResult", Resources |-> Listed(resources, it.resources)]))

handlePromptsList(m, it) == Ok(Response(m.ID, [type |-> "PromptsListResult", Prompts |-> Listed(prompts, it.prompts)]))

\* variant: the handler of some registered tool is called, not the named one's
handleToolCall_AnyTool(m) ==
    LET params == Unmarshal(m.Params) IN
    IF params.err # NoErr THEN Return(Fail(Errorf("invalid tool call params: ", params.err)))
    ELSE IF params.Name \notin DOMAIN tools THEN Return(Fail(Errorf("tool not found: ", <<params.Name>>)))
    ELSE Call(tools[CHOOSE n \in DOMAIN tools : TRUE].Handler, params.Arguments)

handleToolCall(m) ==
    LET params == Unmarshal(m.Params) IN
    IF params.err # NoErr THEN Return(Fail(Errorf("invalid tool call params: ", params.err)))
    ELSE IF params.Name \notin DOMAIN tools THEN Return(Fail(Errorf("tool not found: ", <<params.Name>>)))
    ELSE Call(tools[params.Name].Handler, params.Arguments)

\* variant: the lookup result is used without the exists check (a miss yields the zero Resource)
handleResourceRead_Unchecked(m) ==
    LET params == Unmarshal(m.Params) IN
    IF params.err # NoErr THEN Return(Fail(Errorf("invalid resource read params: ", params.err)))
    ELSE Call(IF params.URI \in DOMAIN resources THEN resources[params.URI].Handler ELSE NilHandler, <<[uri |-> params.URI]>>)

handleResourceRead(m) ==
    LET params == Unmarshal(m.Params) IN
    IF params.err # NoErr THEN Return(Fail(Errorf("invalid resource read params: ", params.err)))
    ELSE IF params.URI \notin DOMAIN resources THEN Return(Fail(Errorf("resource not found: ", <<params.URI>>)))
    ELSE Call(resources[params.URI].Handler, <<[uri |-> params.URI]>>)

handlePromptGet(m) ==
    LET params == Unmarshal(m.Params) IN
    IF params.err # NoErr THEN Return(Fail(Errorf("invalid prompt get params: ", params.err)))
    ELSE IF params.Name \notin DOMAIN prompts THEN Return(Fail(Errorf("prompt not found: ", <<params.Name>>)))
    ELSE Call(prompts[params.Name].Handler, params.Arguments)

handleCompletion(m) ==
    IF capabilities.Completion = NilPtr THEN Panics
    ELSE IF ~capabilities.Completion[1].Provider THEN Return(Fail(<<"completion not supported">>))
    ELSE IF Unmarshal(m.Params).err # NoErr THEN Return(Fail(Errorf("invalid completion params: ", Unmarshal(m.Params).err)))
    ELSE Return(Ok(Response(m.ID, [type |-> "CompletionResult", Values |-> << >>, Total |-> 0, HasMore |-> FALSE])))

\* variant: an unknown method is dropped without an error
UnknownMethod_Ignored(m) == NoReply

\* the default branch of the method switch
UnknownMethod(m) == Fail(Errorf("unknown method: ", <<m.Method>>))

\* variant: the method name is compared without regard to letter case
handleMessage_FoldCase(m, it) ==
    CASE m.Method = "initialize" -> Return(handleInitialize(m))
      [] m.Method = "tools/list" -> Return(handleToolsList(m, it))
      [] m.Method \in {"tools/call", "Tools/Call"} -> handleToolCall(m)
      [] m.Method = "resources/list" -> Return(handleResourcesList(m, it))
      [] m.Method = "resources/read" -> handleResourceRead(m)
      [] m.Method = "prompts/list" -> Return(handlePromptsList(m, it))
      [] m.Method = "prompts/get" -> handlePromptGet(m)
      [] m.Method = "completion/complete" -> handleCompletion(m)
      [] OTHER -> Return(UnknownMethod(m))

\* the method switch of handleMessage
handleMessage(m, it) ==
    CASE m.Method = "initialize" -> Return(handleInitialize(m))
      [] m.Method = "tools/list" -> Return(handleToolsList(m, it))
      [] m.Method = "tools/call" -> handleToolCall(m)
      [] m.Method = "resources/list" -> Return(handleResourcesList(m, it))
      [] m.Method = "resources/read" -> handleResourceRead(m)
      [] m.Method = "prompts/list" -> Return(handlePromptsList(m, it))
      [] m.Method = "prompts/get" -> handlePromptGet(m)
      [] m.Method = "completion/complete" -> handleCompletion(m)
      [] OTHER -> Return(UnknownMethod(m))

\* what the registered handlers may return: (value, err)
HandlerResults == {[value |-> "hi", err |-> NoErr], [value |-> "", err |-> <<"boom">>]}

\* variant: the text of the handler is left out of the result
ToolCallResult_NoContent(text) == [type |-> "ToolCallResult", Content |-> << >>]

\* ToolCallResult{Content: []Content{{Type: "text", Text: result}}}
ToolCallResult(text) == [type |-> "ToolCallResult", Content |-> <<[Type |-> "text", Text |-> text]>>]

\* variant: the handler's error is replaced by a fixed message
ExecutionFailed_NoCause(prefix, err) == <<prefix>>

\* fmt.Errorf("<prefix>%w", err) for the error a handler returned
ExecutionFailed(prefix, err) == Errorf(prefix, err)

\* the rest of handleToolCall / handleResourceRead / handlePromptGet, once the handler has returned r
handlerReturned(m, r) ==
    CASE m.Method = "tools/call" ->
           IF r.err # NoErr THEN Fail(ExecutionFailed("tool execution failed: ", r.err))
           ELSE Ok(Response(m.ID, ToolCallResult(r.value)))
      [] m.Method = "resources/read" ->
           IF r.err # NoErr THEN Fail(ExecutionFailed("resource read failed: ", r.err))
           ELSE Ok(Response(m.ID, [type |-> "ResourceReadResult", Contents |-> <<[URI |-> Unmarshal(m.Params).URI, MimeType |-> resources[Unmarshal(m.Params).URI].MimeType, Text |-> r.value]>>]))
      [] m.Method = "prompts/get" ->
           IF r.err # NoErr THEN Fail(ExecutionFailed("prompt generation failed: ", r.err))
           ELSE Ok(Response(m.ID, [type |-> "PromptGetResult", Messages |-> <<[Role |-> "user", Content |-> <<[Type |-> "text", Text |-> r.value]>>]>>]))

\* variant: the error response is built without the request id
sendError_NoID(id, err) == Message(NilPtr, "", NilPtr, NilPtr, <<[Code |-> InternalError, Message |-> err]>>)

\* sendError builds the error response for request id
sendError(id, err) == Message(id, "", NilPtr, NilPtr, <<[Code |-> InternalError, Message |-> err]>>)

----------------------------------------------------------------------------
(* Setup: NewServer and the registrations main makes before Start *)

EmptyMap == [k \in {} |-> NilPtr]

Put(map, key, value) == [k \in DOMAIN map \cup {key} |-> IF k = key THEN value ELSE map[k]]

ServerInit ==
    /\ pc = "setup"
    /\ tools = EmptyMap
    /\ resources = EmptyMap
    /\ prompts = EmptyMap
    /\ capabilities \in ServerConfigs
    /\ cancelled = FALSE
    /\ msg = NoMsg
    /\ reply = NoReply
    /\ running = {}
    /\ wire = NilPtr
    /\ wrote = FALSE
    /\ written = << >>
    /\ nread = 0
    /\ initialized = FALSE
    /\ errCodes = [unknownMethod |-> {}, notFound |-> {}]
    /\ ret = NoErr

Init == ServerInit /\ BuilderInit

\* variant: the registration replaces the descriptor bound to the name
RegisterTool_Overwrite(tool) ==
    /\ pc = "setup"
    /\ tools' = Put(tools, tool.Name, tool)
    /\ ret' = NoErr
    /\ UNCHANGED <<pc, resources, prompts, capabilities, cancelled, msg, reply, running, wire, wrote, written, nread, initialized, errCodes>>
    /\ UNCHANGED builderVars

RegisterTool(tool) ==
    /\ pc = "setup"
    /\ IF tool.Name \in DOMAIN tools
         THEN ret' = <<"tool ", tool.Name, " already registered">> /\ UNCHANGED tools
         ELSE tools' = Put(tools, tool.Name, tool) /\ ret' = NoErr
    /\ UNCHANGED <<pc, resources, prompts, capabilities, cancelled, msg, reply, running, wire, wrote, written, nread, initialized, errCodes>>
    /\ UNCHANGED builderVars

\* variant: the three registries share one namespace of keys
RegisterResource_SharedNamespace(resource) ==
    /\ pc = "setup"
    /\ IF resource.URI \in DOMAIN tools \cup DOMAIN resources \cup DOMAIN prompts
         THEN ret' = <<"resource ", resource.URI, " already registered">> /\ UNCHANGED resources
         ELSE resources' = Put(resources, resource.URI, resource) /\ ret' = NoErr
    /\ UNCHANGED <<pc, tools, prompts, capabilities, cancelled, msg, reply, running, wire, wrote, written, nread, initialized, errCodes>>
    /\ UNCHANGED builderVars

RegisterResource(resource) ==
    /\ pc = "setup"
    /\ IF resource.URI \in DOMAIN resources
         THEN ret' = <<"resource ", resource.URI, " already registered">> /\ UNCHANGED resources
         ELSE resources' = Put(resources, resource.URI, resource) /\ ret' = NoErr
    /\ UNCHANGED <<pc, tools, prompts, capabilities, cancelled, msg, reply, running, wire, wrote, written, nread, initialized, errCodes>>
    /\ UNCHANGED builderVars

RegisterPrompt(prompt) ==
    /\ pc = "setup"
    /\ IF prompt.Name \in DOMAIN prompts
         THEN ret' = <<"prompt ", prompt.Name, " already registered">> /\ UNCHANGED prompts
         ELSE prompts' = Put(prompts, prompt.Name, prompt) /\ ret' = NoErr
    /\ UNCHANGED <<pc, tools, resources, capabilities, cancelled, msg, reply, running, wire, wrote, written, nread, initialized, errCodes>>
    /\ UNCHANGED builderVars

----------------------------------------------------------------------------
(* Start: the serve loop *)

\* main calls server.Start(ctx) once the registrations are made
StartServer ==
    /\ pc = "setup"
    /\ pc' = "select"
    /\ ret' = NoReturn
    /\ UNCHANGED <<tools, resources, prompts, capabilities, cancelled, msg, reply, running, wire, wrote, written, nread, initialized, errCodes>>
    /\ UNCHANGED builderVars

\* main's signal goroutine calls cancel()
Cancel ==
    /\ pc \notin {"setup", "done"}
    /\ ~cancelled
    /\ cancelled' = TRUE
    /\ UNCHANGED <<pc, tools, resources, prompts, capabilities, msg, reply, running, wire, wrote, written, nread, initialized, errCodes, ret>>
    /\ UNCHANGED builderVars

\* variant: the context is also watched while a handler is executing
CancelPoints_Handler == {"select", "handler"}

\* the positions of Start at which ctx.Done() is polled: the head of the loop only
CancelPoints == {"select"}

\* select { case <-ctx.Done(): return ctx.Err(); default: ... }
Select ==
    /\ pc \in CancelPoints
    /\ IF cancelled
         THEN pc' = "done" /\ ret' = <<"context canceled">>
         ELSE pc = "select" /\ pc' = "decode" /\ UNCHANGED ret
    /\ UNCHANGED <<tools, resources, prompts, capabilities, cancelled, msg, reply, running, wire, wrote, written, nread, initialized, errCodes>>
    /\ UNCHANGED builderVars

\* what decoder.Decode may fail with: the end of the input, or bytes that do not parse
DecodeErrors == {<<"EOF">>, <<"invalid character">>}

\* what Start returns when Decode fails with err
DecodeFailure(err) == IF err = <<"EOF">> THEN NoErr ELSE Errorf("failed to decode message: ", err)

\* variant: Start skips what it could not decode and reads on
DecodeFailurePc_Skip == "select"

\* Start returns when Decode fails
DecodeFailurePc == "done"

\* var msg Message; decoder.Decode(&msg): the next envelope, one of those the client
\* sends, or a failure
DecodeFrom(requests) ==
    /\ pc = "decode"
    /\ \/ \E w \in requests :
            /\ nread < MaxMsgs
            /\ msg' = DecodeMessage(w)
            /\ nread' = nread + 1
            /\ pc' = "handle"
            /\ UNCHANGED ret
       \/ \E err \in DecodeErrors :
            /\ msg' = NoMsg
            /\ pc' = DecodeFailurePc
            /\ ret' = DecodeFailure(err)
            /\ UNCHANGED nread
    /\ reply' = NoReply
    /\ wire' = NilPtr
    /\ wrote' = FALSE
    /\ UNCHANGED <<tools, resources, prompts, capabilities, cancelled, running, written, initialized, errCodes>>
    /\ UNCHANGED builderVars

Decode == DecodeFrom(WireRequests)

\* variant: the handler is started in its own goroutine and the loop goes on
HandlerCallPc_Async == "select"

\* where Start is once a registered handler has been called: it waits for the handler to return
HandlerCallPc == "handler"

\* response, err := s.handleMessage(ctx, msg), up to the call of a registered handler
Handle ==
    /\ pc = "handle"
    /\ \E it \in Iterations :
         LET o == handleMessage(msg, it) IN
         CASE o.step = "return" ->
                /\ reply' = o.reply
                /\ pc' = "respond"
                /\ UNCHANGED <<running, ret>>
           [] o.step = "call" /\ o.handler # NilHandler ->
                /\ running' = running \cup {[handler |-> o.handler, request |-> nread, args |-> o.args]}
                /\ pc' = HandlerCallPc
                /\ UNCHANGED <<reply, ret>>
           [] OTHER ->
                /\ pc' = "done"
                /\ ret' = PanicValue
                /\ UNCHANGED <<reply, running>>
    /\ UNCHANGED <<tools, resources, prompts, capabilities, cancelled, msg, wire, wrote, written, nread, initialized, errCodes>>
    /\ UNCHANGED builderVars

\* variant: a tool is unregistered once its handler has returned
HandlerReturn_Evicts ==
    /\ pc = "handler"
    /\ \E r \in HandlerResults : reply' = handlerReturned(msg, r)
    /\ running' = {}
    /\ pc' = "respond"
    /\ tools' = [n \in DOMAIN tools \ {Unmarshal(msg.Params).Name} |-> tools[n]]
    /\ UNCHANGED <<resources, prompts, capabilities, cancelled, msg, wire, wrote, written, nread, initialized, errCodes, ret>>
    /\ UNCHANGED builderVars

\* the registered handler returns, and handleMessage with it
HandlerReturn ==
    /\ pc = "handler"
    /\ \E r \in HandlerResults : reply' = handlerReturned(msg, r)
    /\ running' = {}
    /\ pc' = "respond"
    /\ UNCHANGED <<tools, resources, prompts, capabilities, cancelled, msg, wire, wrote, written, nread, initialized, errCodes, ret>>
    /\ UNCHANGED builderVars

\* variant: the newest response is put in front of the earlier ones
Encode_InFront(out, request) == <<request>> \o out

\* encoder.Encode appends one JSON value to the output stream
Encode(out, request) == Append(out, request)

\* the envelope Start hands to the encoder for what handleMessage returned, if any
Outgoing(m, r) == IF r.err # NoErr THEN <<Marshal(sendError(m.ID, r.err))>> ELSE IF r.response # NilPtr THEN <<Marshal(r.response[1])>> ELSE NilPtr

\* variant: Start gives up after an error response
ErrorPathPc_Stop == "done"

\* after sendError Start continues with the next iteration
ErrorPathPc == "select"

\* the class of failure an error of handleMessage reports
ErrClass(e) == IF e[1] = "unknown method: " THEN "unknownMethod" ELSE IF e[1] \in {"tool not found: ", "resource not found: ", "prompt not found: "} THEN "notFound" ELSE "other"

Observe(codes, e, code) == IF ErrClass(e) \in DOMAIN codes THEN [codes EXCEPT ![ErrClass(e)] = @ \cup {code}] ELSE codes

\* Start, lines 346-356: the error goes out through sendError, whose write error is
\* dropped; a response is encoded, and a write error ends Start
Respond ==
    /\ pc = "respond"
    /\ wire' = Outgoing(msg, reply)
    /\ IF wire' = NilPtr
         THEN /\ pc' = "select"
              /\ UNCHANGED <<wrote, written, ret, errCodes>>
         ELSE \E ok \in BOOLEAN :
              /\ wrote' = ok
              /\ written' = Encode(written, nread)
              /\ IF reply.err # NoErr
                   THEN /\ pc' = ErrorPathPc
                        /\ errCodes' = Observe(errCodes, reply.err, wire'[1]["error"][1].Code)
                        /\ UNCHANGED ret
                   ELSE /\ pc' = IF ok THEN "select" ELSE "done"
                        /\ ret' = IF ok THEN ret ELSE Errorf("failed to encode response: ", <<"write error">>)
                        /\ UNCHANGED errCodes
    /\ initialized' = (initialized \/ (msg.Method = "initialize" /\ reply.err = NoErr))
    /\ UNCHANGED <<tools, resources, prompts, capabilities, cancelled, msg, reply, running, nread>>
    /\ UNCHANGED builderVars

Next ==
    \/ \E t \in Tool : RegisterTool(t)
    \/ \E r \in Resource : RegisterResource(r)
    \/ \E p \in Prompt : RegisterPrompt(p)
    \/ StartServer
    \/ Cancel
    \/ Select
    \/ Decode
    \/ Handle
    \/ HandlerReturn
    \/ Respond

Spec == Init /\ [][Next]_vars

\* the goroutine of Start is scheduled, and a handler that was called returns:
\* the steps that do not wait for the client are taken when they can be
FairSpec == Spec /\ WF_vars(Select) /\ WF_vars(Handle) /\ WF_vars(HandlerReturn) /\ WF_vars(Respond)

----------------------------------------------------------------------------
(* The registries: a setup that registers several descriptors per registry, *)
(* followed by a session of list requests                                   *)

RegistryTools == [Name : {"alpha", "beta"}, Handler : {"toolFn", "otherToolFn"}]
RegistryResources == [URI : {"file:///a", "file:///b"}, MimeType : {"text/plain"}, Handler : {"resourceFn", "otherResourceFn"}]
RegistryPrompts == [Name : {"alpha", "beta"}, Handler : {"promptFn", "otherPromptFn"}]

\* the list requests of a client
ListRequests == {Obj({"jsonrpc", "id", "method"}, [jsonrpc |-> "2.0", id |-> <<"1">>, method |-> m]) : m \in {"tools/list", "resources/list", "prompts/list"}}

RegistryInit == Init /\ capabilities = MainCapabilities

RegistryNext ==
    \/ \E t \in RegistryTools : RegisterTool(t)
    \/ \E r \in RegistryResources : RegisterResource(r)
    \/ \E p \in RegistryPrompts : RegisterPrompt(p)
    \/ StartServer
    \/ Select
    \/ DecodeFrom(ListRequests)
    \/ Handle
    \/ Respond

RegistrySpec == RegistryInit /\ [][RegistryNext]_vars

\* main's use of the capabilities builder, before the server is constructed
CapSpec == RegistryInit /\ [][CapNext]_vars

\* a call c.Merge(other) for the capability sets a caller may hold, with structs of
\* their own or shared
MergeInit ==
    /\ ServerInit /\ capabilities = MainCapabilities
    /\ cb = NewCapabilitiesBuilder /\ built = << >> /\ hasAny = NilPtr
    /\ NoDescriptorBuilder
    /\ \E vc \in CapValues, vo \in CapValues, shared \in BOOLEAN :
         /\ shared => vo = vc
         /\ heap = IF shared THEN Shared(vc).heap ELSE Separate(vc, vo).heap
         /\ merge = [c |-> <<Ptrs(vc, 0)>>, other |-> <<IF shared THEN Ptrs(vc, 0) ELSE Ptrs(vo, 5)>>, before |-> <<[c |-> vc, other |-> vo]>>, result |-> NilPtr]

MergeSpec == MergeInit /\ [][MergeCall]_vars

\* a call c.HasAnyCapability() for the capability sets a caller may hold
HasAnyInit ==
    /\ ServerInit /\ capabilities = MainCapabilities
    /\ cb = NewCapabilitiesBuilder /\ built = << >> /\ hasAny = NilPtr
    /\ NoDescriptorBuilder
    /\ \E vc \in CapValues :
         /\ heap = Shared(vc).heap
         /\ merge = [c |-> <<Shared(vc).c>>, other |-> NilPtr, before |-> NilPtr, result |-> NilPtr]

HasAnyCall ==
    /\ merge.c # NilPtr /\ hasAny = NilPtr
    /\ hasAny' = <<[c |-> Deref(heap, merge.c[1]), result |-> HasAnyCapability(Deref(heap, merge.c[1]))]>>
    /\ UNCHANGED <<heap, cb, built, merge>>
    /\ UNCHANGED descVars
    /\ UNCHANGED validation
    /\ UNCHANGED serverVars

HasAnySpec == HasAnyInit /\ [][HasAnyCall]_vars

\* a caller constructs one builder and works with it: a tool, resource or prompt
\* builder, or none of them, and then it is the capabilities builder it works with
BuildInit ==
    /\ ServerInit /\ capabilities = MainCapabilities
    /\ cb = NewCapabilitiesBuilder
    /\ heap = Store([a \in 1..5 |-> NilPtr], cb, DefaultCapabilities)
    /\ built = << >> /\ merge = NoMerge /\ hasAny = NilPtr
    /\ lastBuild = NilPtr /\ arrays = << >> /\ validation = NilPtr
    /\ \E kind \in {"tool", "resource", "prompt", "capability"} :
         /\ tb = IF kind = "tool" THEN <<NewToolBuilder("alpha", "d")>> ELSE NilPtr
         /\ rb = IF kind = "resource" THEN <<NewResourceBuilder("file:///a", "a")>> ELSE NilPtr
         /\ pb = IF kind = "prompt" THEN <<NewPromptBuilder("alpha")>> ELSE NilPtr

\* the capabilities builder is the one the caller works with
CapabilitiesBuilderOnly == tb = NilPtr /\ rb = NilPtr /\ pb = NilPtr

BuildNext ==
    \/ \E o \in ToolOps : ToolBuilderCall(o)
    \/ ToolBuild
    \/ \E o \in ResourceOps : ResourceBuilderCall(o)
    \/ ResourceBuild
    \/ \E o \in PromptOps : PromptBuilderCall(o)
    \/ PromptBuild
    \/ CapabilitiesBuilderOnly /\ \E o \in EnableOps : BuilderEnable(o)
    \/ CapabilitiesBuilderOnly /\ BuilderBuild

BuildSpec == BuildInit /\ [][BuildNext]_vars

\* a resource is built with a resource builder and registered, and the client reads it
ReadRequests == {Obj({"jsonrpc", "id", "method", "params"}, [jsonrpc |-> "2.0", id |-> <<"1">>, method |-> "resources/read", params |-> <<[type |-> "object", name |-> "", uri |-> u, arguments |-> NilPtr]>>]) : u \in {"file:///a", "file:///b"}}

ReadInit ==
    /\ ServerInit /\ capabilities = MainCapabilities
    /\ cb = NewCapabilitiesBuilder
    /\ heap = Store([a \in 1..5 |-> NilPtr], cb, DefaultCapabilities)
    /\ built = << >> /\ merge = NoMerge /\ hasAny = NilPtr
    /\ lastBuild = NilPtr /\ arrays = << >> /\ validation = NilPtr /\ tb = NilPtr /\ pb = NilPtr
    /\ rb = <<NewResourceBuilder("file:///a", "a")>>

\* server.RegisterResource(rb.Build())
RegisterBuiltResource == lastBuild # NilPtr /\ RegisterResource(lastBuild[1].result)

ReadNext ==
    \/ pc = "setup" /\ \E o \in ResourceOps : ResourceBuilderCall(o)
    \/ pc = "setup" /\ ResourceBuild
    \/ RegisterBuiltResource
    \/ StartServer
    \/ Select
    \/ DecodeFrom(ReadRequests)
    \/ Handle
    \/ HandlerReturn
    \/ Respond

ReadSpec == ReadInit /\ [][ReadNext]_vars

\* resources whose uris are the names the tools and prompts of the registry setup use
SharedKeyResources == [URI : {"alpha", "beta"}, MimeType : {"text/plain"}, Handler : {"resourceFn", "otherResourceFn"}]

\* a setup that registers tools, resources and prompts under the same keys
SharedKeyNext ==
    \/ \E t \in RegistryTools : RegisterTool(t)
    \/ \E r \in SharedKeyResources : RegisterResource(r)
    \/ \E p \in RegistryPrompts : RegisterPrompt(p)

SharedKeySpec == RegistryInit /\ [][SharedKeyNext]_vars

\* a session of calls on a server with several tools: requests naming a registered
\* tool, resource or prompt, an unregistered one, requests without params, and a
\* request for a method that has no handler to call
CallParams == {NilPtr} \cup {<<[type |-> "object", name |-> n, uri |-> "", arguments |-> NilPtr]>> : n \in {"alpha", "beta", "echo"}} \cup {<<[type |-> "object", name |-> "", uri |-> u, arguments |-> NilPtr]>> : u \in {"file:///a", "file:///missing"}}

CallRequests == {Obj({"jsonrpc", "id", "method"} \cup (IF p = NilPtr THEN {} ELSE {"params"}), [jsonrpc |-> "2.0", id |-> <<"1">>, method |-> m, params |-> p]) : m \in {"tools/call", "resources/read", "prompts/get", "tools/list"}, p \in CallParams}

CallNext ==
    \/ \E t \in RegistryTools : RegisterTool(t)
    \/ \E r \in Resource : RegisterResource(r)
    \/ \E q \in Prompt : RegisterPrompt(q)
    \/ StartServer
    \/ Select
    \/ DecodeFrom(CallRequests)
    \/ Handle
    \/ HandlerReturn
    \/ Respond

CallSpec == RegistryInit /\ [][CallNext]_vars

\* a call of one of the validators on an arguments map
ValidateInit ==
    /\ ServerInit /\ capabilities = MainCapabilities
    /\ cb = NewCapabilitiesBuilder
    /\ heap = Store([a \in 1..5 |-> NilPtr], cb, DefaultCapabilities)
    /\ built = << >> /\ merge = NoMerge /\ hasAny = NilPtr
    /\ tb = NilPtr /\ rb = NilPtr /\ pb = NilPtr /\ lastBuild = NilPtr /\ arrays = << >>
    /\ \E fn \in Validators, args \in ArgMaps, key \in {"k", "missing"} : \E d \in Defaults(fn) :
         validation = <<[fn |-> fn, args |-> args, key |-> key, defaultValue |-> d, result |-> NilPtr]>>

ValidateSpec == ValidateInit /\ [][ValidateCall]_vars

----------------------------------------------------------------------------
(* Registration by another goroutine while Start is serving: the Register*  *)
(* methods have no guard and take no lock.  A map write that overlaps the   *)
(* lookup or range of handleMessage is a data race, which the Go runtime    *)
(* either lets through or stops with a fatal error.                         *)

FatalMapAccess == <<"fatal error: concurrent map read and map write">>

\* Start is in handleMessage, reading the registries
ReadingRegistries == pc = "handle"

LateRegisterTool(tool) ==
    /\ pc \notin {"setup", "done"}
    /\ \/ /\ tools' = IF tool.Name \in DOMAIN tools THEN tools ELSE Put(tools, tool.Name, tool)
          /\ UNCHANGED <<pc, ret>>
       \/ /\ ReadingRegistries /\ tool.Name \notin DOMAIN tools
          /\ pc' = "done" /\ ret' = FatalMapAccess
          /\ UNCHANGED tools
    /\ UNCHANGED <<resources, prompts, capabilities, cancelled, msg, reply, running, wire, wrote, written, nread, initialized, errCodes>>
    /\ UNCHANGED builderVars

LateRegisterResource(resource) ==
    /\ pc \notin {"setup", "done"}
    /\ \/ /\ resources' = IF resource.URI \in DOMAIN resources THEN resources ELSE Put(resources, resource.URI, resource)
          /\ UNCHANGED <<pc, ret>>
       \/ /\ ReadingRegistries /\ resource.URI \notin DOMAIN resources
          /\ pc' = "done" /\ ret' = FatalMapAccess
          /\ UNCHANGED resources
    /\ UNCHANGED <<tools, prompts, capabilities, cancelled, msg, reply, running, wire, wrote, written, nread, initialized, errCodes>>
    /\ UNCHANGED builderVars

LateRegisterPrompt(prompt) ==
    /\ pc \notin {"setup", "done"}
    /\ \/ /\ prompts' = IF prompt.Name \in DOMAIN prompts THEN prompts ELSE Put(prompts, prompt.Name, prompt)
          /\ UNCHANGED <<pc, ret>>
       \/ /\ ReadingRegistries /\ prompt.Name \notin DOMAIN prompts
          /\ pc' = "done" /\ ret' = FatalMapAccess
          /\ UNCHANGED prompts
    /\ UNCHANGED <<tools, resources, capabilities, cancelled, msg, reply, running, wire, wrote, written, nread, initialized, errCodes>>
    /\ UNCHANGED builderVars

\* the requests of a client that lists and calls
LateRequests == ListRequests \cup {Obj({"jsonrpc", "id", "method", "params"}, [jsonrpc |-> "2.0", id |-> <<"1">>, method |-> "tools/call", params |-> <<[type |-> "object", name |-> "echo", uri |-> "", arguments |-> NilPtr]>>])}

\* tools registered before or after Start: the one the client calls and another one
LateTools == [Name : ToolNames \cup {"alpha"}, Handler : ToolHandlers]

LateNext ==
    \/ \E t \in LateTools : RegisterTool(t) \/ LateRegisterTool(t)
    \/ \E r \in Resource : RegisterResource(r) \/ LateRegisterResource(r)
    \/ \E p \in Prompt : RegisterPrompt(p) \/ LateRegisterPrompt(p)
    \/ StartServer
    \/ Select
    \/ DecodeFrom(LateRequests)
    \/ Handle
    \/ HandlerReturn
    \/ Respond

LateSpec == RegistryInit /\ [][LateNext]_vars

----------------------------------------------------------------------------
(* Properties *)

\* number of response envelopes encoded for the k-th request
Answers(k) == Cardinality({i \in 1..Len(written) : written[i] = k})

\* the envelope of this iteration has been handed to the encoder
Responded == wire # NilPtr

IdEchoed == IF msg.ID = NilPtr THEN "id" \notin DOMAIN wire[1] ELSE "id" \in DOMAIN wire[1] /\ wire[1]["id"] = msg.ID

IsErrorResponse == "error" \in DOMAIN wire[1] /\ "result" \notin DOMAIN wire[1]

\* msg holds an envelope that handleMessage has been called with
Dispatched == msg # NoMsg /\ pc # "handle"

\* Start has not ended, or ended only because the context was cancelled before the next read
StillServing == pc = "done" => ret = <<"context canceled">>

C2_ResponseOrder == \A i, j \in 1..Len(written) : i < j => written[i] < written[j]

\* the responses to two requests are on the output
C2_Witness == Len(written) = 2 /\ written[2] = 2

\* C3: at most one handler is executing, it is the handler of the envelope read last,
\* and Start is at the read of the next envelope only when no handler is executing
\* and every envelope read before has had its response encoded.
C3_OneAtATime ==
    /\ Cardinality(running) <= 1
    /\ \A r \in running : r.request = nread /\ pc = "handler"
    /\ \A k \in 1..(nread - 1) : Answers(k) = 1
    /\ pc \in {"select", "decode"} => running = {} /\ \A k \in 1..nread : Answers(k) = 1

\* the handler of the second request is executing
C3_Witness == pc = "handler" /\ nread = 2 /\ running # {}

\* C4: every response envelope carries the id of the request it answers, unchanged
\* (and none when the request had none).
C4_IdEchoed == Responded => IdEchoed

\* an error response to a request whose id is null
C4_Witness == Responded /\ IsErrorResponse /\ msg.ID = <<"null">> /\ wire[1]["id"] = <<"null">>

\* C5: every envelope the server writes has exactly one of result and error, and no method.
C5_ResultXorError == Responded => ("result" \in DOMAIN wire[1]) # ("error" \in DOMAIN wire[1]) /\ "method" \notin DOMAIN wire[1]

\* a result response has been written
C5_Witness == Responded /\ wrote /\ "result" \in DOMAIN wire[1] /\ msg.Method = "tools/list"

C7_DistinctCodes == errCodes.unknownMethod \cap errCodes.notFound = {}

\* the request names a tool, resource or prompt that is not registered
LookupFails(m) ==
    /\ Unmarshal(m.Params).err = NoErr
    /\ \/ m.Method = "tools/call" /\ Unmarshal(m.Params).Name \notin DOMAIN tools
       \/ m.Method = "resources/read" /\ Unmarshal(m.Params).URI \notin DOMAIN resources
       \/ m.Method = "prompts/get" /\ Unmarshal(m.Params).Name \notin DOMAIN prompts

\* C8: a tools/call, resources/read or prompts/get whose name/uri is not registered
\* gets an error response for that request, without any handler being called, and
\* Start neither panics nor returns: it goes on to the next envelope.
C8_LookupFailure ==
    Dispatched /\ LookupFails(msg) =>
        /\ running = {}
        /\ pc # "handler"
        /\ pc \in {"select", "decode", "done"} => Responded
        /\ Responded => IsErrorResponse /\ IdEchoed
        /\ StillServing

\* after a not-found error a later request has been read and answered
C8_Witness == errCodes.notFound # {} /\ nread = 2 /\ ~LookupFails(msg) /\ Responded /\ pc = "select"

\* the capability the routing table requires for a method
RequiredCapability(method) ==
    CASE method \in {"tools/list", "tools/call"} -> "Tools"
      [] method \in {"resources/list", "resources/read"} -> "Resources"
      [] method \in {"prompts/list", "prompts/get"} -> "Prompts"
      [] method = "completion/complete" -> "Completion"
      [] OTHER -> "none"

Enabled(c, cap) == c[cap] # NilPtr /\ c[cap][1].Provider

Gated(m) == RequiredCapability(m.Method) # "none"

\* C9: a request for a capability-gated method whose capability is not enabled is
\* answered with an error that is not the unknown-method error, and no handler is
\* called and no result produced for it.
C9_GatedMethodRefused ==
    Dispatched /\ Gated(msg) /\ ~Enabled(capabilities, RequiredCapability(msg.Method)) =>
        /\ running = {}
        /\ pc # "handler"
        /\ Responded => IsErrorResponse /\ wire[1]["error"][1].Message[1] # "unknown method: "

\* C10: a capability-gated method received before any initialize request has been
\* answered gets an error response, also when its capability is enabled.
C10_RefusedBeforeInitialize ==
    Dispatched /\ Gated(msg) /\ Enabled(capabilities, RequiredCapability(msg.Method)) /\ ~initialized =>
        /\ running = {}
        /\ pc # "handler"
        /\ Responded => IsErrorResponse

\* Start has returned the error of a failed Decode
DecodeFailed == Len(ret) > 0 /\ ret[1] = "failed to decode message: "

\* C11: when Decode fails on bytes that do not parse, Start has returned, what it
\* returned wraps that decode error, no response was encoded for the malformed
\* envelope (only the envelopes decoded before it have one), and nothing is read,
\* handled or written afterwards.
C11_DecodeErrorFatal ==
    /\ [](DecodeFailed =>
            /\ pc = "done"
            /\ \E e \in DecodeErrors \ {<<"EOF">>} : ret = <<"failed to decode message: ">> \o e
            /\ msg = NoMsg /\ wire = NilPtr /\ running = {}
            /\ Len(written) = nread /\ \A k \in 1..nread : Answers(k) = 1)
    /\ [][DecodeFailed => UNCHANGED vars]_vars

\* the second envelope on the input does not parse; the first one was answered
C11_Witness == DecodeFailed /\ nread = 1 /\ written = <<1>>

\* Start has returned the error of a failed write of a result
EncodeFailed == Len(ret) > 0 /\ ret[1] = "failed to encode response: "

\* every registered descriptor has a handler bound, so every handler call returns
HandlersReturn == \A n \in DOMAIN tools : tools[n].Handler # NilHandler

\* C12: when Start has ended on an input whose envelopes all parsed, with handlers
\* that return, no cancellation and no failed write, it has returned nil and every
\* envelope it read has its response.
C12_EndOfInputReturnsNil ==
    pc = "done" /\ HandlersReturn /\ ~cancelled /\ ~DecodeFailed /\ ~EncodeFailed =>
        ret = NoErr /\ \A k \in 1..nread : Answers(k) = 1

\* Start is between two messages: the previous response is out, the next envelope not read
BetweenMessages == pc \in {"select", "decode"}

\* C13: once the context is cancelled while Start is between messages, Start reads
\* no further envelope (so none is dispatched), and when it ends it returns the
\* cancellation error.
C13_CancelBetweenMessages == [][cancelled /\ BetweenMessages => nread' = nread /\ (pc' = "done" => ret' = <<"context canceled">>)]_vars

\* C14: a handler that is executing when the context is cancelled runs to its
\* return and its request gets its response encoded; Start returns the cancellation
\* error only with no handler executing and every envelope it read answered.
C14_HandlerNotInterrupted ==
    /\ [](ret = <<"context canceled">> => pc = "done" /\ running = {} /\ \A k \in 1..nread : Answers(k) = 1)
    /\ [][cancelled /\ pc = "handler" => pc' = "respond" /\ running' = {} /\ ret' = ret]_vars
    /\ (cancelled /\ pc = "handler") ~> (Answers(nread) = 1)

\* the response of a tools/call was written with the context already cancelled,
\* and Start has not yet looked at the context
C14_Witness == cancelled /\ pc = "select" /\ msg.Method = "tools/call" /\ Responded /\ wrote /\ "result" \in DOMAIN wire[1]

\* the request reaches the call of a registered handler: its params decode and its
\* name/uri is registered
HandlerInvoked(m) ==
    /\ Unmarshal(m.Params).err = NoErr
    /\ \/ m.Method = "tools/call" /\ Unmarshal(m.Params).Name \in DOMAIN tools
       \/ m.Method = "resources/read" /\ Unmarshal(m.Params).URI \in DOMAIN resources
       \/ m.Method = "prompts/get" /\ Unmarshal(m.Params).Name \in DOMAIN prompts

\* the errors the registered handlers may return
HandlerErrors == {r.err : r \in HandlerResults} \ {NoErr}

\* the error response to a request whose handler was called: the handler failed
HandlerFailureAnswered == Dispatched /\ HandlerInvoked(msg) /\ Responded /\ IsErrorResponse

FailurePrefix(method) ==
    CASE method = "tools/call" -> "tool execution failed: "
      [] method = "resources/read" -> "resource read failed: "
      [] method = "prompts/get" -> "prompt generation failed: "

HandlerTexts == {r.value : r \in {h \in HandlerResults : h.err = NoErr}}

\* C16: a tools/call naming a registered tool calls that tool's handler with the
\* arguments of the request, and when the handler has returned a text without error
\* the response is a result (no error, the request's id) whose content is exactly
\* one item, of type text, holding that text.
C16_ToolCallResult ==
    Dispatched /\ msg.Method = "tools/call" /\ HandlerInvoked(msg) =>
        /\ pc = "handler" => running = {[handler |-> tools[msg.Params[1].name].Handler, request |-> nread, args |-> msg.Params[1].arguments]}
        /\ reply.response # NilPtr =>
              /\ \E t \in HandlerTexts : reply.response[1].Result = <<[type |-> "ToolCallResult", Content |-> <<[Type |-> "text", Text |-> t]>>]>>
              /\ Responded => "error" \notin DOMAIN wire[1] /\ wire[1]["result"] = reply.response[1].Result /\ IdEchoed

\* the result of a tools/call with arguments {"msg": "hi"} has been written
C16_Witness == pc = "select" /\ msg.Method = "tools/call" /\ HandlerInvoked(msg) /\ msg.Params[1].arguments = <<[msg |-> "hi"]>> /\ Responded /\ wrote /\ "result" \in DOMAIN wire[1]

\* every key of registry old is bound to the same descriptor and handler in new
Kept(old, new) == \A k \in DOMAIN old : k \in DOMAIN new /\ new[k] = old[k]

\* the number of entries the three list methods would show
Listable == Cardinality(DOMAIN tools) + Cardinality(DOMAIN resources) + Cardinality(DOMAIN prompts)

\* the key a failed registration names is one that was present
Rejected(e) ==
    \/ e[1] = "tool " /\ e[2] \in DOMAIN tools /\ e[3] = " already registered"
    \/ e[1] = "resource " /\ e[2] \in DOMAIN resources /\ e[3] = " already registered"
    \/ e[1] = "prompt " /\ e[2] \in DOMAIN prompts /\ e[3] = " already registered"

\* C17: a registration call never unbinds or rebinds a key that is present; a call
\* that succeeds adds exactly one entry to the three registries together, and a
\* call that fails names a key that was present and leaves the registries as they were.
C17_RegisterOnce ==
    [][pc = "setup" /\ pc' = "setup" =>
        /\ Kept(tools, tools') /\ Kept(resources, resources') /\ Kept(prompts, prompts')
        /\ IF ret' = NoErr
             THEN Listable' = Listable + 1
             ELSE Rejected(ret') /\ UNCHANGED <<tools, resources, prompts>>]_vars

\* a second registration of a resource uri was rejected with both uris registered
\* and the first handler still bound
C17_Witness == pc = "setup" /\ ret = <<"resource ", "file:///a", " already registered">> /\ DOMAIN resources = {"file:///a", "file:///b"} /\ resources["file:///a"].Handler = "resourceFn" /\ Listable = 4

\* keys of the descriptors, in ascending (byte-wise) order
Ascending == <<"alpha", "beta", "file:///a", "file:///b">>

\* position of a descriptor's key in the ascending order of keys
Rank(d) == CHOOSE i \in 1..Len(Ascending) : Ascending[i] = (IF "URI" \in DOMAIN d THEN d.URI ELSE d.Name)

IsSorted(list) == \A i, j \in 1..Len(list) : i < j => Rank(list[i]) < Rank(list[j])

\* the entries of the list result that was written
ListedEntries ==
    CASE msg.Method = "tools/list" -> wire[1]["result"][1].Tools
      [] msg.Method = "resources/list" -> wire[1]["result"][1].Resources
      [] msg.Method = "prompts/list" -> wire[1]["result"][1].Prompts

\* C18: the entries of every tools/list, resources/list and prompts/list result are
\* in ascending order of name/uri.
C18_ListsSorted == Responded /\ msg.Method \in {"tools/list", "resources/list", "prompts/list"} => IsSorted(ListedEntries)

\* C19: no step changes the capability set the server was constructed with, and
\* every initialize response is a result reporting protocol version 2024-11-05, the
\* server's name and version, and that capability set.
C19_CapabilitiesFixed ==
    /\ [][capabilities' = capabilities]_vars
    /\ [](Responded /\ msg.Method = "initialize" =>
            /\ "error" \notin DOMAIN wire[1]
            /\ wire[1]["result"][1].ProtocolVersion = "2024-11-05"
            /\ wire[1]["result"][1].ServerInfo = [Name |-> ServerName, Version |-> ServerVersion]
            /\ wire[1]["result"][1].Capabilities = capabilities)

\* the second request of a session is an initialize, answered with the capability
\* set main constructs the server with
C19_Witness == nread = 2 /\ initialized /\ msg.Method = "initialize" /\ Responded /\ wrote /\ capabilities = MainCapabilities /\ wire[1]["result"][1].Capabilities = MainCapabilities

\* C20: once Start is serving, no step of it (reading, routing, calling a handler,
\* answering) adds, removes or replaces an entry of the three registries.
C20_RegistriesUnchanged == [][pc # "setup" => UNCHANGED <<tools, resources, prompts>>]_vars

\* with all three registries filled, two requests have been handled, the second a
\* tools/call that reached the tool's handler
C20_Witness == nread = 2 /\ written = <<1, 2>> /\ DOMAIN tools # {} /\ DOMAIN resources # {} /\ DOMAIN prompts # {} /\ msg.Method = "tools/call" /\ HandlerInvoked(msg) /\ Responded

\* C21: once Start has begun the serve loop, no registration takes effect: the
\* registries keep their entries and get no new one.
C21_RegistrationConfinedToSetup == [][pc # "setup" => Listable' = Listable /\ Kept(tools, tools') /\ Kept(resources, resources') /\ Kept(prompts, prompts')]_vars

\* C22: the envelope Start is handling is never a tools/call that names a registered
\* tool whose descriptor has no handler (such a descriptor was rejected at setup).
C22_HandlerlessRejected == pc # "setup" /\ msg.Method = "tools/call" /\ HandlerInvoked(msg) => tools[msg.Params[1].name].Handler # NilHandler

\* the request is for a method that takes params, and its params do not decode
\* into the method's parameter struct (absent params included)
ParamsMalformed(m) == m.Method \in {"tools/call", "resources/read", "prompts/get", "completion/complete"} /\ Unmarshal(m.Params).err # NoErr

\* C23: a request for a known method whose params do not decode is answered with an
\* error response carrying its id whose code is the invalid-params code, not the
\* code of internal/handler errors; no handler is called, and Start goes on.
C23_InvalidParams ==
    Dispatched /\ ParamsMalformed(msg) =>
        /\ running = {}
        /\ pc # "handler"
        /\ pc \in {"select", "decode", "done"} => Responded
        /\ Responded => IsErrorResponse /\ IdEchoed /\ wire[1]["error"][1].Code # InternalError
        /\ StillServing

\* a feature or sub-option that is on in capability set v is on in w
StaysOn(v, w) ==
    /\ \A f \in DOMAIN v : v[f] # NilPtr /\ v[f][1].Provider => w[f] # NilPtr /\ w[f][1].Provider
    /\ v.Resources # NilPtr /\ v.Resources[1].Subscribe => w.Resources # NilPtr /\ w.Resources[1].Subscribe

\* C25: in every state of the builder, each EnableX call applied twice leaves what
\* one application leaves, and no EnableX call turns off a feature or sub-option
\* (resource subscription included) that was on.
C25_EnableIdempotentMonotonic ==
    [][/\ \A o \in EnableOps : ApplyEnable(ApplyEnable(Deref(heap, cb), o), o) = ApplyEnable(Deref(heap, cb), o)
       /\ StaysOn(Deref(heap, cb), Deref(heap', cb'))]_vars

\* C26: every capability set Build has returned still holds what it held when it
\* was returned, whatever EnableX calls were made on the builder afterwards.
C26_BuildSnapshot == \A i \in 1..Len(built) : Deref(heap, built[i].caps) = built[i].view

\* C24: the set c.Merge(other) returns holds, for every capability absent from other,
\* what c held for it (absent if c had none), and for every capability present in
\* other exactly what other held, in every sub-field.
C24_MergeResult ==
    merge.result # NilPtr =>
        \A f \in DOMAIN merge.result[1] :
            Deref(heap, merge.result[1])[f] = IF merge.before[1].other[f] = NilPtr THEN merge.before[1].c[f] ELSE merge.before[1].other[f]

\* a Merge has returned where other had no tools capability, another resources
\* capability than c, and a prompts capability that c did not have
C24_Witness ==
    /\ merge.result # NilPtr
    /\ merge.before[1].other.Tools = NilPtr /\ merge.before[1].c.Tools = Cap(TRUE)
    /\ merge.before[1].c.Resources = ResCap(TRUE, TRUE) /\ merge.before[1].other.Resources = ResCap(TRUE, FALSE)
    /\ merge.before[1].c.Prompts = NilPtr /\ merge.before[1].other.Prompts = Cap(TRUE)
    /\ Deref(heap, merge.result[1]).Resources = ResCap(TRUE, FALSE)

\* C27: HasAnyCapability returns true exactly when some capability is present with
\* its provider flag on; it returns false for what DefaultCapabilities() and a
\* builder without EnableX calls hold.
C27_HasAnyCapability ==
    hasAny # NilPtr =>
        /\ hasAny[1].result = (\E f \in DOMAIN hasAny[1].c : hasAny[1].c[f] # NilPtr /\ hasAny[1].c[f][1].Provider)
        /\ hasAny[1].c = DefaultCapabilities => ~hasAny[1].result

\* HasAnyCapability has returned true for a set whose only capability is completion
C27_Witness == hasAny # NilPtr /\ hasAny[1].c = [ZeroCapabilities EXCEPT !.Completion = Cap(TRUE)] /\ hasAny[1].result


\* C28: the required list of the schema of a built tool holds no name more than once,
\* whatever AddProperty, AddStringProperty, AddNumberProperty, AddBooleanProperty,
\* AddArrayProperty and AddObjectProperty calls were made on the builder
C28_RequiredDistinct ==
    lastBuild # NilPtr /\ lastBuild[1].kind = "tool" =>
        LET required == RequiredOf(lastBuild[1].result.InputSchema)
        IN \A i \in 1..Len(required), j \in 1..Len(required) : required[i] = required[j] => i = j

\* a Build call on the tool, resource or prompt builder returns
DescriptorBuilt == lastBuild' # NilPtr /\ ~lastBuild'[1].touched /\ lastBuild' # lastBuild

\* a Build call on the capabilities builder returns
CapabilitiesBuilt == Len(built') = Len(built) + 1

\* C29: a Build call leaves its builder as it was, and returns what the Build call
\* before it returned when the builder was not called in between (tool, resource and
\* prompt builder: equal descriptors; capabilities builder: equal capability sets)
C29_BuildIdempotent ==
    /\ [](lastBuild # NilPtr /\ lastBuild[1].prev # NilPtr => lastBuild[1].result = lastBuild[1].prev[1])
    /\ [](\A i \in 1..Len(built), j \in 1..Len(built) : Deref(heap, built[i].caps) = Deref(heap, built[j].caps))
    /\ [][DescriptorBuilt => UNCHANGED <<tb, rb, pb, arrays>>]_vars
    /\ [][CapabilitiesBuilt => UNCHANGED <<cb, heap>>]_vars

\* Build has been called twice in a row on a tool builder with properties and a handler
C29_Witness == lastBuild # NilPtr /\ lastBuild[1].kind = "tool" /\ lastBuild[1].prev # NilPtr /\ Len(RequiredOf(lastBuild[1].result.InputSchema)) = 2 /\ lastBuild[1].result.Handler # NilHandler /\ tb[1].schema.properties["y"] # NilPtr

\* handleMessage has returned for the envelope of this iteration
Routed == Dispatched /\ pc # "handler" /\ ret # PanicValue

\* C30: routing compares the method with the eight names of the routing table
\* character for character: handleMessage returns the unknown-method error, which
\* depends on nothing but the method, exactly for the requests whose method is not
\* one of the eight (a name in another letter case and the empty method included),
\* and no handler is entered for such a request.
C30_ExactRouting ==
    /\ Routed => (reply = UnknownMethod(msg) <=> msg.Method \notin RoutingTable)
    /\ Dispatched /\ msg.Method \notin RoutingTable => running = {} /\ pc # "handler" /\ ret # PanicValue

\* a request for "Tools/Call" naming a registered tool has been answered with the
\* unknown-method error
C30_Witness == Routed /\ msg.Method = "Tools/Call" /\ HandlerInvoked([msg EXCEPT !.Method = "tools/call"]) /\ Responded /\ IsErrorResponse /\ wire[1]["error"][1].Message = <<"unknown method: ", "Tools/Call">>

\* SetMimeType has been called on the resource builder
SetMimeTypeCalled == rb # NilPtr /\ rb[1].mimeType \in {o.mimeType : o \in {x \in ResourceOps : x.op = "SetMimeType"}}

\* C31: the result of a resources/read holds exactly one content item: its uri is the
\* requested one, its MIME type the one of the registered resource (text/plain when
\* SetMimeType was never called on the builder it was built with), its text the one
\* the handler returned.
C31_ReadContent ==
    Dispatched /\ msg.Method = "resources/read" /\ reply.response # NilPtr =>
        /\ \E t \in HandlerTexts : reply.response[1].Result = <<[type |-> "ResourceReadResult", Contents |-> <<[URI |-> msg.Params[1].uri, MimeType |-> resources[msg.Params[1].uri].MimeType, Text |-> t]>>]>>
        /\ ~SetMimeTypeCalled => reply.response[1].Result[1].Contents[1].MimeType = "text/plain"
        /\ Responded => "error" \notin DOMAIN wire[1] /\ wire[1]["result"] = reply.response[1].Result /\ IdEchoed

\* the content of a resource built without SetMimeType has been written
C31_Witness == pc = "select" /\ msg.Method = "resources/read" /\ Responded /\ wrote /\ "result" \in DOMAIN wire[1] /\ ~SetMimeTypeCalled /\ wire[1]["result"][1].Contents[1].URI = "file:///a"

\* C32: a registration call changes at most one of the three registries, a failed one
\* none of them, and a call fails only over a key present in the registry it is made
\* on: a key bound in one registry can still be registered in the other two.
C32_RegistriesIndependent ==
    [][pc = "setup" /\ pc' = "setup" =>
        /\ tools' # tools => UNCHANGED <<resources, prompts>>
        /\ resources' # resources => UNCHANGED <<tools, prompts>>
        /\ prompts' # prompts => UNCHANGED <<tools, resources>>
        /\ ret' # NoErr => Rejected(ret') /\ UNCHANGED <<tools, resources, prompts>>]_vars

\* the key alpha is bound in each of the three registries
C32_Witness == pc = "setup" /\ ret = NoErr /\ "alpha" \in DOMAIN tools /\ "alpha" \in DOMAIN resources /\ "alpha" \in DOMAIN prompts /\ "beta" \notin DOMAIN resources

\* what a holder of the descriptor of the Build call l reads from it, given the
\* backing arrays: its fields, and for a prompt the elements of its argument slice
Described(l, arrs) == IF l.kind = "prompt" THEN [l.result EXCEPT !.Arguments = Elements(arrs, @)] ELSE l.result

\* C33: a call on a builder other than Build changes nothing a holder of the
\* descriptor built last reads from it: name, uri, description, MIME type, schema,
\* arguments and handler stay what they were when Build returned.
C33_DescriptorImmutable == [][lastBuild # NilPtr /\ ~DescriptorBuilt => lastBuild' # NilPtr /\ Described(lastBuild'[1], arrays') = Described(lastBuild[1], arrays)]_vars

\* a prompt was built with three arguments, and a fourth has been appended since into
\* the backing array the descriptor's arguments are in
C33_Witness == lastBuild # NilPtr /\ lastBuild[1].kind = "prompt" /\ lastBuild[1].touched /\ lastBuild[1].result.Arguments.len = 3 /\ pb[1].arguments.len = 4 /\ pb[1].arguments.array = lastBuild[1].result.Arguments.array

\* the invocation handleMessage makes for request m: the handler bound to the
\* descriptor registered under the name or uri of m, with the arguments of m
Invocation(m) ==
    CASE m.Method = "tools/call" -> [handler |-> tools[Unmarshal(m.Params).Name].Handler, request |-> nread, args |-> Unmarshal(m.Params).Arguments]
      [] m.Method = "resources/read" -> [handler |-> resources[Unmarshal(m.Params).URI].Handler, request |-> nread, args |-> <<[uri |-> Unmarshal(m.Params).URI]>>]
      [] m.Method = "prompts/get" -> [handler |-> prompts[Unmarshal(m.Params).Name].Handler, request |-> nread, args |-> Unmarshal(m.Params).Arguments]

\* C34: a handler is entered only from handleMessage, for a tools/call, resources/read
\* or prompts/get request whose params decode and whose name/uri is registered, and
\* it is the handler bound to that descriptor; when it returns, with or without an
\* error, the request goes on to its response and is not handled again, so it is
\* entered once per request; a request answered without a handler call is one whose
\* params or lookup failed or whose method is another one, and no handler runs for it.
C34_HandlerOnce ==
    /\ [](running # {} => pc = "handler" /\ Cardinality(running) = 1)
    /\ [](Dispatched /\ ~HandlerInvoked(msg) => running = {} /\ pc # "handler")
    /\ [][pc' = "handler" /\ pc # "handler" => pc = "handle" /\ HandlerInvoked(msg) /\ running = {} /\ running' = {Invocation(msg)}]_vars
    /\ [][pc = "handler" /\ pc' # "handler" => pc' = "respond" /\ running' = {}]_vars
    /\ [][pc = "handle" /\ pc' = "respond" => ~HandlerInvoked(msg)]_vars
    /\ [][pc = "respond" => pc' \notin {"handle", "handler"}]_vars

\* with two tools bound to different handlers, a call of beta whose handler failed
\* has been answered, and the loop is at its head again
C34_Witness == pc = "select" /\ msg.Method = "tools/call" /\ HandlerInvoked(msg) /\ msg.Params[1].name = "beta" /\ DOMAIN tools = {"alpha", "beta"} /\ tools["alpha"].Handler # tools["beta"].Handler /\ Responded /\ IsErrorResponse /\ wire[1]["error"][1].Message[1] = "tool execution failed: "

\* C35: once c.Merge(other) has returned, every capability read through c and through
\* other is what it was before the call.
C35_MergeKeepsOperands ==
    merge.result # NilPtr =>
        /\ Deref(heap, merge.c[1]) = merge.before[1].c
        /\ Deref(heap, merge.other[1]) = merge.before[1].other

\* C36: when the output stream has refused the response of this iteration, a result
\* or an error response, Start has ended and returned the error of the failed write;
\* it is not back in its loop to read the next envelope.
C36_WriteFailureFatal == Responded /\ ~wrote => pc = "done" /\ EncodeFailed

\* the server's capability set has the completion capability switched on
CompletionEnabled == capabilities.Completion # NilPtr /\ capabilities.Completion[1].Provider

\* C37: a completion/complete request never ends Start: without a completion
\* capability (no entry at all, or one switched off) it is answered with the
\* per-request error "completion not supported" and Start goes on; with the capability
\* on, its result is the empty value list, total 0, has-more false.
C37_CompletionNeverCrashes ==
    Dispatched /\ msg.Method = "completion/complete" =>
        /\ ret # PanicValue
        /\ StillServing
        /\ pc \in {"select", "decode", "done"} => Responded
        /\ Responded /\ ~CompletionEnabled => IsErrorResponse /\ IdEchoed /\ wire[1]["error"][1].Message = <<"completion not supported">>
        /\ Responded /\ "result" \in DOMAIN wire[1] => CompletionEnabled /\ wire[1]["result"] = <<[type |-> "CompletionResult", Values |-> << >>, Total |-> 0, HasMore |-> FALSE]>>

\* the key of the validator call v is bound to a value of the type the validator asks
\* for (a number is a float64 or an int)
WellTyped(v) ==
    /\ v.key \in DOMAIN v.args
    /\ v.args[v.key].type \in (CASE v.fn \in {"ValidateRequiredString", "ValidateOptionalString"} -> {"string"}
                                 [] v.fn \in {"ValidateRequiredNumber", "ValidateOptionalNumber"} -> {"float64", "int"}
                                 [] v.fn \in {"ValidateRequiredBool", "ValidateOptionalBool"} -> {"bool"})

\* the type of the value a validator returns
ResultType(fn) ==
    CASE fn \in {"ValidateRequiredString", "ValidateOptionalString"} -> "string"
      [] fn \in {"ValidateRequiredNumber", "ValidateOptionalNumber"} -> "float64"
      [] fn \in {"ValidateRequiredBool", "ValidateOptionalBool"} -> "bool"

\* C38: an optional validator returns a value and no error: the default when the key
\* is absent or bound to a value of another type, the stored value otherwise; a
\* required validator returns a validation error for the key in those same cases,
\* ValidateRequiredString also for the empty string, and the stored value with no
\* error otherwise.
C38_Validators ==
    validation # NilPtr /\ validation[1].result # NilPtr =>
        LET v == validation[1]
            r == v.result[1]
            stored == v.args[v.key].value
        IN /\ r[1].type = ResultType(v.fn)
           /\ IF v.fn \in {"ValidateOptionalString", "ValidateOptionalNumber", "ValidateOptionalBool"}
                THEN Len(r) = 1 /\ r[1].value = IF WellTyped(v) THEN stored ELSE v.defaultValue.value
                ELSE /\ Len(r) = 2
                     /\ r[2] # NoErr <=> ~WellTyped(v) \/ (v.fn = "ValidateRequiredString" /\ stored = "")
                     /\ r[2] # NoErr => r[2][1].Field = v.key
                     /\ r[2] = NoErr => r[1].value = stored

\* ValidateOptionalString has returned its default for a key bound to a number
C38_Witness == validation # NilPtr /\ validation[1].fn = "ValidateOptionalString" /\ validation[1].key = "k" /\ "k" \in DOMAIN validation[1].args /\ validation[1].args["k"] = GoFloat64(3) /\ validation[1].defaultValue = GoString("dflt") /\ validation[1].result = <<<<GoString("dflt")>>>>
====
